---- MODULE Spec2Model ----
(***************************************************************************)
(* A model of the Dynamic RAM Console, src/kmsg_last.c: the ring buffer    *)
(* that records console output (rbuf), the linear buffer that holds the    *)
(* previous session's output (lbuf), the two init calls and the file       *)
(* operations of /proc/kmsg.last.                                          *)
(*                                                                         *)
(* Pointers into rbuf->data are modelled by their offset from rbuf->data   *)
(* (the pointer difference, a signed machine word).  The machine word is   *)
(* scaled down to PTR_MOD values and BUF_SIZE to a few bytes.              *)
(***************************************************************************)
EXTENDS Integers, Sequences, FiniteSets, TLC

VARIABLES rbuf, lbuf, rbufOk, lbufOk, bootpc, procEntry, console,
          written, wrote, nCopy, nInit, acc, ppos, ret, erased, rd,
          san, wp, rl

vars == <<rbuf, lbuf, rbufOk, lbufOk, bootpc, procEntry, console,
          written, wrote, nCopy, nInit, acc, ppos, ret, erased, rd,
          san, wp, rl>>

\* the sanitizer's input and results, the processes inside ring_buffer_write,
\* and the progress of a loop of reads
aux == <<san, wp, rl>>

(***************************************************************************)
(* Sizes.  BUF_SIZE is 8192 in the source; the model scales it down.       *)
(***************************************************************************)
BUF_SIZE == 3

\* number of values of a machine word (uintptr_t), scaled down
PTR_MOD == 32

\* longest string of one ring_buffer_write call (besides LongStrs)
MaxLen == 2

BUF_MAGIC == 1263358791

\* '\n'
NL == 10

PTR_MAX == (PTR_MOD \div 2) - 1
PTR_MIN == 0 - (PTR_MOD \div 2)

\* bound of the bytes written to the ring in one session
MaxWritten == 2 * BUF_SIZE + 1

Offsets == 0 .. (BUF_SIZE - 1)

\* bytes the console writes in the model: newline and two printable ones
WriteBytes == {NL, 65, 66}

\* bytes found in salvaged memory: newline, a control character, a printable
\* one, and bytes with bit 0x80 set over a control character and a newline
MemBytes == {NL, 1, 65, 129, 138}

StrsUpTo(S, n) == UNION {[1..k -> S] : k \in 0..n}

\* two strings longer than the ring
LongStrs == {[i \in 1..(BUF_SIZE + 1) |-> 65],
             [i \in 1..(BUF_SIZE + 1) |-> IF i = 2 THEN NL ELSE 66]}

WriteStrs == StrsUpTo(WriteBytes, MaxLen) \cup LongStrs

Min(a, b) == IF a <= b THEN a ELSE b

(***************************************************************************)
(* ring_buffer_write                                                       *)
(***************************************************************************)

\* head++ / tail++ followed by "if (p == stop) p = start"
RingNext(p) == IF p + 1 = BUF_SIZE THEN 0 ELSE p + 1

\* a plausible slip: the scan stops at the newline and leaves it in the ring
RECURSIVE evict_keep_newline(_, _, _)
evict_keep_newline(data, head, tail) ==
  IF data[tail] = NL THEN tail
  ELSE LET t == RingNext(tail)
       IN  IF t = head THEN t ELSE evict_keep_newline(data, head, t)

\* the eviction loop: "while (!found) { found = *tail++ == '\n'; ... }"
RECURSIVE evict(_, _, _)
evict(data, head, tail) ==
  LET found == data[tail] = NL
      t     == RingNext(tail)
  IN  IF t = head \/ found THEN t ELSE evict(data, head, t)

\* a plausible slip: the byte is stored after head has been advanced
put_byte_preinc(st, c) ==
  LET h == RingNext(st.head)
      d == [st.data EXCEPT ![h] = c]
  IN  [data |-> d, head |-> h,
       tail |-> IF h = st.tail THEN evict(d, h, st.tail) ELSE st.tail]

\* a plausible slip: eviction starts one byte before head reaches tail
put_byte_eager(st, c) ==
  LET d == [st.data EXCEPT ![st.head] = c]
      h == RingNext(st.head)
  IN  [data |-> d, head |-> h,
       tail |-> IF h = st.tail \/ RingNext(h) = st.tail
                THEN evict(d, h, st.tail) ELSE st.tail]

\* one iteration of "while (len--)": store, advance head, evict if full
put_byte(st, c) ==
  LET d == [st.data EXCEPT ![st.head] = c]
      h == RingNext(st.head)
  IN  [data |-> d, head |-> h,
       tail |-> IF h = st.tail THEN evict(d, h, st.tail) ELSE st.tail]

RECURSIVE write_loop(_, _)
write_loop(st, str) ==
  IF str = <<>> THEN st ELSE write_loop(put_byte(st, Head(str)), Tail(str))

\* a plausible slip: "rbuf->head = head" is missing
ring_buffer_write_nohead(r, str) ==
  LET st == write_loop([data |-> r.data, head |-> r.head, tail |-> r.tail], str)
  IN  [r EXCEPT !.data = st.data, !.tail = st.tail]

\* the whole call: load head and tail, run the loop, store them back
ring_buffer_write(r, str) ==
  LET st == write_loop([data |-> r.data, head |-> r.head, tail |-> r.tail], str)
  IN  [r EXCEPT !.data = st.data, !.head = st.head, !.tail = st.tail]

\* the retained window: the bytes from tail up to head, circularly
RECURSIVE RingSpan(_, _, _)
RingSpan(data, from, to) ==
  IF from = to THEN <<>>
  ELSE <<data[from]>> \o RingSpan(data, RingNext(from), to)

Window == RingSpan(rbuf.data, rbuf.tail, rbuf.head)

(***************************************************************************)
(* ring_buffer_init                                                        *)
(***************************************************************************)
\* a plausible slip: "rbuf->magic = BUF_MAGIC" is missing
ring_buffer_init_nomagic(r) == [r EXCEPT !.head = 0, !.tail = 0]

ring_buffer_init(r) == [r EXCEPT !.head = 0, !.tail = 0, !.magic = BUF_MAGIC]

(***************************************************************************)
(* ring_buffer_copy                                                        *)
(***************************************************************************)

\* the cast (uintptr_t)(p - rbuf->data) of a pointer difference
ToUnsigned(x) == x % PTR_MOD

\* p++ on a pointer that is not known to be inside the ring
PtrInc(p) == IF p = PTR_MAX THEN PTR_MIN ELSE p + 1

\* a plausible slip: the magic number is not compared
ring_buffer_valid_nomagic(r) ==
  /\ ToUnsigned(r.head) < BUF_SIZE
  /\ ToUnsigned(r.tail) < BUF_SIZE

\* a plausible slip: the difference of tail is compared as a signed number
ring_buffer_valid_signed(r) ==
  /\ r.magic = BUF_MAGIC
  /\ ToUnsigned(r.head) < BUF_SIZE
  /\ r.tail < BUF_SIZE

\* the negation of the condition of "exit if content ... is not valid"
ring_buffer_valid(r) ==
  /\ r.magic = BUF_MAGIC
  /\ ToUnsigned(r.head) < BUF_SIZE
  /\ ToUnsigned(r.tail) < BUF_SIZE

\* a plausible slip: control characters are copied as they are
sanitize_high_only(b) == IF (b \div 128) % 2 = 1 THEN b - 128 ELSE b

\* a plausible slip: the two tests are in the other order
sanitize_swapped(b) ==
  LET d == IF b < 32 /\ b # NL THEN b + 32 ELSE b
  IN  IF (d \div 128) % 2 = 1 THEN d - 128 ELSE d

\* "if (data & 0x80) data &= 0x7F; if (data < 0x20 && data != '\n') data |= 0x20"
sanitize(b) ==
  LET d == IF (b \div 128) % 2 = 1 THEN b - 128 ELSE b
  IN  IF d < 32 /\ d # NL THEN d + 32 ELSE d

\* *tail: a read outside rbuf->data yields a byte the model does not know
RingByte(data, off) == IF off \in Offsets THEN data[off] ELSE 0

\* the copy loop "while (head != tail)"; rd and wr collect the offsets read
\* in rbuf->data and written in lbuf->data
RECURSIVE copy_loop(_, _, _, _, _, _, _)
copy_loop(data, head, tail, dst, out, rdset, wrset) ==
  IF head = tail THEN [data |-> out, rd |-> rdset, wr |-> wrset]
  ELSE LET b  == sanitize(RingByte(data, tail))
           t1 == PtrInc(tail)
           t  == IF t1 = BUF_SIZE THEN 0 ELSE t1
       IN  copy_loop(data, head, t, PtrInc(dst),
                     IF dst \in Offsets THEN [out EXCEPT ![dst] = b] ELSE out,
                     rdset \cup {tail}, wrset \cup {dst})

\* the whole call: the new lbuf, the offsets accessed, and whether the
\* content was accepted
ring_buffer_copy(r, l) ==
  IF ~ring_buffer_valid(r)
  THEN [lbuf |-> [l EXCEPT !.count = 0], rd |-> {}, wr |-> {},
        accepted |-> FALSE]
  ELSE LET n    == (IF r.tail > r.head THEN BUF_SIZE ELSE 0) + r.head - r.tail
           done == copy_loop(r.data, r.head, r.tail, 0, l.data, {}, {})
       IN  [lbuf |-> [data |-> done.data, count |-> n],
            rd |-> done.rd, wr |-> done.wr, accepted |-> TRUE]

(***************************************************************************)
(* Values of the variables a specification does not use.                   *)
(***************************************************************************)
NoAcc == [rd |-> {}, wr |-> {}, accepted |-> FALSE,
          seen |-> [data |-> [i \in Offsets |-> 0], head |-> 0, tail |-> 0,
                    magic |-> 0]]
NoRet == [op |-> "none", pos0 |-> 0, req |-> 0, len0 |-> 0, ok |-> TRUE,
          n |-> 0, fault |-> FALSE, bytes |-> <<>>, touched |-> {}, pos1 |-> 0]
NoRd  == [pc |-> "idle", pos |-> 0, count |-> 0, ok |-> TRUE]
\* lbuf comes from kmalloc and is not cleared
JunkLbuf == [data |-> [i \in Offsets |-> 0], count |-> 0 - 1]
Started == [phase |-> "running", step |-> 0]
NoSan == [in |-> 0, once |-> 0, twice |-> 0, n |-> 0]
NoProc == [pc |-> "idle", str |-> <<>>, head |-> 0, tail |-> 0, flags |-> TRUE]
NoWp == [task |-> NoProc, irq |-> NoProc, irqOn |-> TRUE, calls |-> <<>>,
         crashed |-> FALSE, base |-> NoAcc.seen]
NoRl == [got |-> <<>>, reads |-> 0, zeroAt |-> 0, late |-> 0]

(***************************************************************************)
(* The console: register_console() makes ring_buffer_write callable.       *)
(***************************************************************************)
ConsoleWrite(str) ==
  /\ console
  /\ Len(written) + Len(str) <= MaxWritten
  /\ rbuf' = ring_buffer_write(rbuf, str)
  /\ written' = written \o str
  /\ wrote' = TRUE
  /\ UNCHANGED aux /\ UNCHANGED <<lbuf, rbufOk, lbufOk, bootpc, procEntry, console,
                 nCopy, nInit, acc, ppos, ret, erased, rd>>

(***************************************************************************)
(* SpecWrite: a session of console writes on a freshly initialised ring.   *)
(***************************************************************************)
InitWrite ==
  /\ \E fill \in {NL, 65} :
       rbuf = ring_buffer_init([data |-> [i \in Offsets |-> fill],
                                head |-> 0, tail |-> 0, magic |-> BUF_MAGIC])
  /\ lbuf = JunkLbuf
  /\ rbufOk = TRUE /\ lbufOk = TRUE
  /\ bootpc = Started /\ procEntry = TRUE /\ console = TRUE
  /\ written = <<>> /\ wrote = FALSE
  /\ nCopy = 1 /\ nInit = 1
  /\ acc = NoAcc /\ ppos = 0 /\ ret = NoRet /\ erased = FALSE /\ rd = NoRd
  /\ san = NoSan /\ wp = NoWp /\ rl = NoRl

NextWrite == \E str \in WriteStrs : ConsoleWrite(str)

SpecWrite == InitWrite /\ [][NextWrite]_vars

(***************************************************************************)
(* The two init calls.  bootpc.phase is "early" before early init, "late"  *)
(* from then until late init returns, then "running" or "failed";          *)
(* bootpc.step is the statement of late init that runs next.               *)
(***************************************************************************)

\* early init: the page array, the pages or the mapping may fail (rbuf and
\* lbuf stay NULL), or the allocation of lbuf may (lbuf stays NULL)
EarlyInit ==
  /\ bootpc.phase = "early"
  /\ \E out \in {"no_rbuf", "no_lbuf", "ok"} :
       /\ rbufOk' = (out # "no_rbuf")
       /\ lbufOk' = (out = "ok")
  /\ bootpc' = [phase |-> "late", step |-> 0]
  /\ UNCHANGED aux /\ UNCHANGED <<rbuf, lbuf, procEntry, console, written, wrote,
                 nCopy, nInit, acc, ppos, ret, erased, rd>>

\* a plausible slip: the console is registered before the old content is saved
LateInitOrder_register_first == <<"register", "copy", "init", "proc">>

\* the calls of late init after its check, in the order of the source
LateInitOrder == <<"copy", "init", "proc", "register">>

LateStepIs(name) ==
  /\ bootpc.phase = "late"
  /\ bootpc.step \in 1..Len(LateInitOrder)
  /\ LateInitOrder[bootpc.step] = name

LateAdvance ==
  bootpc' = IF bootpc.step = Len(LateInitOrder)
            THEN Started
            ELSE [bootpc EXCEPT !.step = bootpc.step + 1]

\* a plausible slip: "exit if early init failed" tests rbuf only
LateCheck_rbuf_only ==
  /\ bootpc.phase = "late" /\ bootpc.step = 0
  /\ bootpc' = IF ~rbufOk
               THEN [phase |-> "failed", step |-> 0]
               ELSE [bootpc EXCEPT !.step = 1]
  /\ UNCHANGED aux /\ UNCHANGED <<rbuf, lbuf, rbufOk, lbufOk, procEntry, console, written,
                 wrote, nCopy, nInit, acc, ppos, ret, erased, rd>>

\* "exit if early init failed"
LateCheck ==
  /\ bootpc.phase = "late" /\ bootpc.step = 0
  /\ bootpc' = IF ~lbufOk \/ ~rbufOk
               THEN [phase |-> "failed", step |-> 0]
               ELSE [bootpc EXCEPT !.step = 1]
  /\ UNCHANGED aux /\ UNCHANGED <<rbuf, lbuf, rbufOk, lbufOk, procEntry, console, written,
                 wrote, nCopy, nInit, acc, ppos, ret, erased, rd>>

\* ring_buffer_copy()
LateCopy ==
  /\ LateStepIs("copy")
  /\ LET c == ring_buffer_copy(rbuf, lbuf)
     IN  /\ lbuf' = c.lbuf
         /\ acc' = [rd |-> c.rd, wr |-> c.wr, accepted |-> c.accepted,
                    seen |-> rbuf]
  /\ nCopy' = nCopy + 1
  /\ LateAdvance
  /\ UNCHANGED aux /\ UNCHANGED <<rbuf, rbufOk, lbufOk, procEntry, console, written, wrote,
                 nInit, ppos, ret, erased, rd>>

\* ring_buffer_init()
LateRingInit ==
  /\ LateStepIs("init")
  /\ rbuf' = ring_buffer_init(rbuf)
  /\ nInit' = nInit + 1
  /\ LateAdvance
  /\ UNCHANGED aux /\ UNCHANGED <<lbuf, rbufOk, lbufOk, procEntry, console, written, wrote,
                 nCopy, acc, ppos, ret, erased, rd>>

\* proc_create("kmsg.last", ...)
LateProcCreate ==
  /\ LateStepIs("proc")
  /\ procEntry' = TRUE
  /\ LateAdvance
  /\ UNCHANGED aux /\ UNCHANGED <<rbuf, lbuf, rbufOk, lbufOk, console, written, wrote,
                 nCopy, nInit, acc, ppos, ret, erased, rd>>

\* register_console(&ring_buffer_console)
LateRegister ==
  /\ LateStepIs("register")
  /\ console' = TRUE
  /\ LateAdvance
  /\ UNCHANGED aux /\ UNCHANGED <<rbuf, lbuf, rbufOk, lbufOk, procEntry, written, wrote,
                 nCopy, nInit, acc, ppos, ret, erased, rd>>

\* the first console message of the session
FirstConsoleWrite ==
  /\ ~wrote
  /\ \E str \in {<<>>, <<65>>, <<NL, 66>>} : ConsoleWrite(str)

(***************************************************************************)
(* SpecBoot: one boot, from any content of the memory that becomes rbuf,   *)
(* up to the first console message.                                        *)
(***************************************************************************)

\* values of a head or tail pointer found in memory, as differences from
\* rbuf->data: inside the ring, at and past its end, negative, extreme
PtrVals == Offsets \cup {BUF_SIZE, BUF_SIZE + 5, 0 - 1, PTR_MIN, PTR_MAX}

InitBoot ==
  /\ rbuf \in [data : [Offsets -> MemBytes], head : PtrVals, tail : PtrVals,
               magic : {BUF_MAGIC, 0}]
  /\ lbuf = JunkLbuf
  /\ rbufOk = FALSE /\ lbufOk = FALSE
  /\ bootpc = [phase |-> "early", step |-> 0]
  /\ procEntry = FALSE /\ console = FALSE
  /\ written = <<>> /\ wrote = FALSE
  /\ nCopy = 0 /\ nInit = 0
  /\ acc = NoAcc /\ ppos = 0 /\ ret = NoRet /\ erased = FALSE /\ rd = NoRd
  /\ san = NoSan /\ wp = NoWp /\ rl = NoRl

NextBoot ==
  \/ EarlyInit
  \/ LateCheck
  \/ LateCopy
  \/ LateRingInit
  \/ LateProcCreate
  \/ LateRegister
  \/ FirstConsoleWrite

SpecBoot == InitBoot /\ [][NextBoot]_vars

(***************************************************************************)
(* The file operations of /proc/kmsg.last.                                 *)
(***************************************************************************)

\* largest count and position of a request in the model; the caller of the
\* file operations never passes a count above MAX_RW_COUNT, so that
\* *ppos + count does not wrap
MaxCount == BUF_SIZE + 1
MaxPos   == BUF_SIZE + 1

\* a value converted to size_t
ToSize(x) == x % PTR_MOD

\* lbuf->data + p: a read outside lbuf->data yields a byte the model does
\* not know
LinByte(data, off) == IF off \in Offsets THEN data[off] ELSE 0

\* "check and fix position"
fix_pos(cnt, pos) == IF pos >= cnt THEN cnt ELSE pos

\* "check and fix count"
fix_count(cnt, pos, count) ==
  IF ToSize(pos + count) >= ToSize(cnt) THEN ToSize(cnt - pos) ELSE count

\* a plausible slip: "*ppos += count" is missing
copy_and_return_nopos(data, pos, count, bufok) ==
  IF count > 0 /\ ~bufok
  THEN [pos |-> pos, n |-> 0, fault |-> TRUE, bytes |-> <<>>,
        touched |-> pos .. (pos + count - 1)]
  ELSE [pos |-> pos, n |-> count, fault |-> FALSE,
        bytes |-> [i \in 1..count |-> LinByte(data, pos + i - 1)],
        touched |-> pos .. (pos + count - 1)]

\* copy_to_user() and what follows it: nothing is copied and nothing fails
\* when count is 0; otherwise the copy fails when the caller's buffer is bad
copy_and_return(data, pos, count, bufok) ==
  IF count > 0 /\ ~bufok
  THEN [pos |-> pos, n |-> 0, fault |-> TRUE, bytes |-> <<>>,
        touched |-> pos .. (pos + count - 1)]
  ELSE [pos |-> pos + count, n |-> count, fault |-> FALSE,
        bytes |-> [i \in 1..count |-> LinByte(data, pos + i - 1)],
        touched |-> pos .. (pos + count - 1)]

\* a plausible slip: the count is not fixed
linear_buffer_read_nofix(l, pos, count, bufok) ==
  copy_and_return(l.data, fix_pos(l.count, pos), count, bufok)

\* the whole call when nothing runs in between
linear_buffer_read(l, pos, count, bufok) ==
  LET p == fix_pos(l.count, pos)
  IN  copy_and_return(l.data, p, fix_count(l.count, p, count), bufok)

\* a plausible slip: the buffer is not erased
linear_buffer_write_keep(l, count) == [lbuf |-> l, n |-> count]

\* a plausible slip: the erase also clears the storage
linear_buffer_write_wipe(l, count) ==
  [lbuf |-> [data |-> [i \in DOMAIN l.data |-> 0], count |-> 0], n |-> count]

linear_buffer_write(l, count) ==
  [lbuf |-> [l EXCEPT !.count = 0], n |-> count]

\* generic_file_llseek, or the position of a pread
EndpointSeek(p) ==
  /\ procEntry
  /\ rd.pc = "idle"
  /\ ppos' = p
  /\ UNCHANGED aux /\ UNCHANGED <<rbuf, lbuf, rbufOk, lbufOk, bootpc, procEntry, console,
                 written, wrote, nCopy, nInit, acc, ret, erased, rd>>

EndpointRead(count, bufok) ==
  /\ procEntry
  /\ rd.pc = "idle"
  /\ LET r == linear_buffer_read(lbuf, ppos, count, bufok)
     IN  /\ ppos' = r.pos
         /\ ret' = [op |-> "read", pos0 |-> ppos, req |-> count,
                    len0 |-> lbuf.count, ok |-> bufok, n |-> r.n,
                    fault |-> r.fault, bytes |-> r.bytes,
                    touched |-> r.touched, pos1 |-> r.pos]
  /\ UNCHANGED aux /\ UNCHANGED <<rbuf, lbuf, rbufOk, lbufOk, bootpc, procEntry, console,
                 written, wrote, nCopy, nInit, acc, erased, rd>>

EndpointWrite(count) ==
  /\ procEntry
  /\ LET w == linear_buffer_write(lbuf, count)
     IN  /\ lbuf' = w.lbuf
         /\ ret' = [NoRet EXCEPT !.op = "write", !.req = count, !.n = w.n,
                                 !.len0 = lbuf.count]
  /\ erased' = TRUE
  /\ UNCHANGED aux /\ UNCHANGED <<rbuf, rbufOk, lbufOk, bootpc, procEntry, console,
                 written, wrote, nCopy, nInit, acc, ppos, rd>>

(***************************************************************************)
(* SpecSession: the session after a complete boot: console messages,       *)
(* reads, seeks and writes of /proc/kmsg.last.                             *)
(***************************************************************************)

\* ring contents left by the previous session
SessionMemories ==
  [data : {[i \in Offsets |-> 65 + i],
           [i \in Offsets |-> IF i = 1 THEN NL ELSE 129 + i]},
   head : {0, 1, BUF_SIZE - 1, BUF_SIZE},
   tail : {0, BUF_SIZE - 1}, magic : {BUF_MAGIC}]

\* the state in which late init returns 0
InitSession ==
  /\ \E m \in SessionMemories :
       LET c == ring_buffer_copy(m, JunkLbuf)
       IN  /\ lbuf = c.lbuf
           /\ acc = [rd |-> c.rd, wr |-> c.wr, accepted |-> c.accepted,
                     seen |-> m]
           /\ rbuf = ring_buffer_init(m)
  /\ rbufOk = TRUE /\ lbufOk = TRUE
  /\ bootpc = Started /\ procEntry = TRUE /\ console = TRUE
  /\ written = <<>> /\ wrote = FALSE
  /\ nCopy = 1 /\ nInit = 1
  /\ ppos = 0 /\ ret = NoRet /\ erased = FALSE /\ rd = NoRd
  /\ san = NoSan /\ wp = NoWp /\ rl = NoRl

SessionConsoleWrite ==
  /\ Len(written) < 2
  /\ \E str \in {<<65>>, <<66, NL>>} : ConsoleWrite(str)

NextSession ==
  \/ SessionConsoleWrite
  \/ \E p \in 0..MaxPos : EndpointSeek(p)
  \/ \E n \in 0..MaxCount, ok \in BOOLEAN : EndpointRead(n, ok)
  \/ \E n \in {0, 1, MaxCount} : EndpointWrite(n)

SpecSession == InitSession /\ [][NextSession]_vars

(***************************************************************************)
(* SpecReadLoop: a reader that opens /proc/kmsg.last and calls read() with *)
(* a good buffer and a count of at least 1, again and again, the position  *)
(* being the one the previous call left; console messages arrive           *)
(* meanwhile; nobody erases.                                               *)
(***************************************************************************)

\* the reader stops calling some reads after the longest possible snapshot
MaxReads == BUF_SIZE + 2

LoopRead(count) ==
  /\ procEntry
  /\ rd.pc = "idle"
  /\ rl.reads < MaxReads
  /\ LET r == linear_buffer_read(lbuf, ppos, count, TRUE)
     IN  /\ ppos' = r.pos
         /\ ret' = [op |-> "read", pos0 |-> ppos, req |-> count,
                    len0 |-> lbuf.count, ok |-> TRUE, n |-> r.n,
                    fault |-> r.fault, bytes |-> r.bytes,
                    touched |-> r.touched, pos1 |-> r.pos]
         /\ rl' = [got    |-> rl.got \o r.bytes,
                   reads  |-> rl.reads + 1,
                   zeroAt |-> IF rl.zeroAt = 0 /\ r.n = 0
                              THEN rl.reads + 1 ELSE rl.zeroAt,
                   late   |-> IF rl.zeroAt # 0 THEN rl.late + r.n
                              ELSE rl.late]
  /\ UNCHANGED <<san, wp>>
  /\ UNCHANGED <<rbuf, lbuf, rbufOk, lbufOk, bootpc, procEntry, console,
                 written, wrote, nCopy, nInit, acc, erased, rd>>

NextReadLoop ==
  \/ \E n \in 1..MaxCount : LoopRead(n)
  \/ SessionConsoleWrite

SpecReadLoop == InitSession /\ [][NextReadLoop]_vars

(***************************************************************************)
(* SpecAlloc: one boot in which early init may fail, followed by the       *)
(* console messages and the requests on /proc/kmsg.last that the boot has  *)
(* made possible.                                                          *)
(***************************************************************************)
InitAlloc ==
  /\ rbuf \in SessionMemories
  /\ lbuf = JunkLbuf
  /\ rbufOk = FALSE /\ lbufOk = FALSE
  /\ bootpc = [phase |-> "early", step |-> 0]
  /\ procEntry = FALSE /\ console = FALSE
  /\ written = <<>> /\ wrote = FALSE
  /\ nCopy = 0 /\ nInit = 0
  /\ acc = NoAcc /\ ppos = 0 /\ ret = NoRet /\ erased = FALSE /\ rd = NoRd
  /\ san = NoSan /\ wp = NoWp /\ rl = NoRl

NextAlloc ==
  \/ EarlyInit
  \/ LateCheck
  \/ LateCopy
  \/ LateRingInit
  \/ LateProcCreate
  \/ LateRegister
  \/ FirstConsoleWrite
  \/ \E n \in {0, 1, MaxCount} : EndpointRead(n, TRUE)
  \/ \E n \in {1} : EndpointWrite(n)

SpecAlloc == InitAlloc /\ [][NextAlloc]_vars

(***************************************************************************)
(* SpecSanitize: the sanitizer of ring_buffer_copy applied to a byte, and  *)
(* applied again to its result.                                            *)
(***************************************************************************)
AllBytes == 0..255

InitSanitize ==
  /\ rbuf = NoAcc.seen /\ lbuf = JunkLbuf
  /\ rbufOk = TRUE /\ lbufOk = TRUE
  /\ bootpc = [phase |-> "late", step |-> 1]
  /\ procEntry = FALSE /\ console = FALSE
  /\ written = <<>> /\ wrote = FALSE
  /\ nCopy = 0 /\ nInit = 0
  /\ acc = NoAcc /\ ppos = 0 /\ ret = NoRet /\ erased = FALSE /\ rd = NoRd
  /\ wp = NoWp /\ rl = NoRl
  /\ \E b \in AllBytes : san = [in |-> b, once |-> b, twice |-> b, n |-> 0]

SanitizeOnce ==
  /\ san.n = 0
  /\ san' = [san EXCEPT !.once = sanitize(san.in), !.n = 1]
  /\ UNCHANGED <<rbuf, lbuf, rbufOk, lbufOk, bootpc, procEntry, console,
                 written, wrote, nCopy, nInit, acc, ppos, ret, erased, rd,
                 wp, rl>>

SanitizeAgain ==
  /\ san.n = 1
  /\ san' = [san EXCEPT !.twice = sanitize(san.once), !.n = 2]
  /\ UNCHANGED <<rbuf, lbuf, rbufOk, lbufOk, bootpc, procEntry, console,
                 written, wrote, nCopy, nInit, acc, ppos, ret, erased, rd,
                 wp, rl>>

NextSanitize == SanitizeOnce \/ SanitizeAgain

SpecSanitize == InitSanitize /\ [][NextSanitize]_vars

(***************************************************************************)
(* SpecRace: linear_buffer_read statement by statement, in one process,    *)
(* while another process writes to /proc/kmsg.last.  The source takes no   *)
(* lock, and each use of lbuf->count is a read of its own.                 *)
(***************************************************************************)

\* entry of linear_buffer_read with *ppos and count
RaceReadCall(count, bufok) ==
  /\ procEntry
  /\ rd.pc = "idle"
  /\ rd' = [pc |-> "l150", pos |-> ppos, count |-> count, ok |-> bufok]
  /\ UNCHANGED aux /\ UNCHANGED <<rbuf, lbuf, rbufOk, lbufOk, bootpc, procEntry, console,
                 written, wrote, nCopy, nInit, acc, ppos, ret, erased>>

\* "if (*ppos >= lbuf->count)"
RaceTestPos ==
  /\ rd.pc = "l150"
  /\ rd' = [rd EXCEPT !.pc = IF rd.pos >= lbuf.count THEN "l151" ELSE "l154"]
  /\ UNCHANGED aux /\ UNCHANGED <<rbuf, lbuf, rbufOk, lbufOk, bootpc, procEntry, console,
                 written, wrote, nCopy, nInit, acc, ppos, ret, erased>>

\* "*ppos = lbuf->count"
RaceFixPos ==
  /\ rd.pc = "l151"
  /\ rd' = [rd EXCEPT !.pc = "l154", !.pos = lbuf.count]
  /\ UNCHANGED aux /\ UNCHANGED <<rbuf, lbuf, rbufOk, lbufOk, bootpc, procEntry, console,
                 written, wrote, nCopy, nInit, acc, ppos, ret, erased>>

\* "if (*ppos + count >= lbuf->count)"
RaceTestCount ==
  /\ rd.pc = "l154"
  /\ rd' = [rd EXCEPT !.pc = IF ToSize(rd.pos + rd.count) >= ToSize(lbuf.count)
                             THEN "l155" ELSE "l158"]
  /\ UNCHANGED aux /\ UNCHANGED <<rbuf, lbuf, rbufOk, lbufOk, bootpc, procEntry, console,
                 written, wrote, nCopy, nInit, acc, ppos, ret, erased>>

\* "count = lbuf->count - *ppos"
RaceFixCount ==
  /\ rd.pc = "l155"
  /\ rd' = [rd EXCEPT !.pc = "l158", !.count = ToSize(lbuf.count - rd.pos)]
  /\ UNCHANGED aux /\ UNCHANGED <<rbuf, lbuf, rbufOk, lbufOk, bootpc, procEntry, console,
                 written, wrote, nCopy, nInit, acc, ppos, ret, erased>>

\* copy_to_user, "*ppos += count", return
RaceCopy ==
  /\ rd.pc = "l158"
  /\ LET r == copy_and_return(lbuf.data, rd.pos, rd.count, rd.ok)
     IN  /\ ppos' = r.pos
         /\ ret' = [op |-> "read", pos0 |-> rd.pos, req |-> rd.count,
                    len0 |-> lbuf.count, ok |-> rd.ok, n |-> r.n,
                    fault |-> r.fault, bytes |-> r.bytes,
                    touched |-> r.touched, pos1 |-> r.pos]
  /\ rd' = NoRd
  /\ UNCHANGED aux /\ UNCHANGED <<rbuf, lbuf, rbufOk, lbufOk, bootpc, procEntry, console,
                 written, wrote, nCopy, nInit, acc, erased>>

NextRace ==
  \/ \E p \in 0..MaxPos : EndpointSeek(p)
  \/ \E n \in 0..MaxCount, ok \in BOOLEAN : RaceReadCall(n, ok)
  \/ RaceTestPos
  \/ RaceFixPos
  \/ RaceTestCount
  \/ RaceFixCount
  \/ RaceCopy
  \/ \E n \in {1} : EndpointWrite(n)

SpecRace == InitSession /\ [][NextRace]_vars

(***************************************************************************)
(* SpecCrash: ring_buffer_write statement by statement, called from a task *)
(* and from an interrupt handler of the same CPU, a restart at any instant *)
(* after ring_buffer_init, and the boot that follows on the preserved      *)
(* memory; the model follows one session, its restart and the boot after   *)
(* it up to register_console.  wp.task and wp.irq hold each context's position, remaining     *)
(* input, local head and tail and saved flags; wp.irqOn is the CPU's       *)
(* interrupt flag.  wp.calls and wp.base record the inputs in the order in *)
(* which the calls disabled interrupts and the ring they started from.     *)
(***************************************************************************)
Contexts == {"task", "irq"}

\* console messages of the two contexts
CrashStrs == StrsUpTo(WriteBytes, MaxLen)

MaxCrashWritten == BUF_SIZE + 1
MaxCrashCalls   == BUF_SIZE

\* the calls that have not yet reached local_irq_save, and their bytes
PendingCalls ==
  (IF wp.task.pc = "save" THEN 1 ELSE 0) + (IF wp.irq.pc = "save" THEN 1 ELSE 0)

PendingLen ==
  (IF wp.task.pc = "save" THEN Len(wp.task.str) ELSE 0) +
  (IF wp.irq.pc = "save" THEN Len(wp.irq.str) ELSE 0)

\* an interrupt handler runs to its end before the task goes on
MayStep(ctx) ==
  IF ctx = "irq" THEN wp.irq.pc # "idle"
  ELSE wp.task.pc # "idle" /\ wp.irq.pc = "idle"

\* the task calls when nothing else runs; an interrupt is taken only while
\* interrupts are enabled
MayCall(ctx) ==
  /\ console /\ ~wp.crashed
  /\ wp.irq.pc = "idle"
  /\ IF ctx = "irq" THEN wp.irqOn ELSE wp.task.pc = "idle"

\* a plausible slip: the flags are saved but interrupts stay enabled
local_irq_save_enabled(on) == [flags |-> on, irqOn |-> on]

\* local_irq_save(flags)
local_irq_save(on) == [flags |-> on, irqOn |-> FALSE]

\* local_irq_restore(flags)
local_irq_restore(flags) == flags

CrashFrame ==
  UNCHANGED <<lbuf, rbufOk, lbufOk, bootpc, procEntry, console, nCopy, nInit,
              acc, ppos, ret, erased, rd, san, rl>>

\* the console core calls ring_buffer_write(console, str, len)
WriteCall(ctx, str) ==
  /\ MayCall(ctx)
  /\ Len(written) + PendingLen + Len(str) <= MaxCrashWritten
  /\ Len(wp.calls) + PendingCalls < MaxCrashCalls
  /\ wp' = [wp EXCEPT ![ctx] = [NoProc EXCEPT !.pc = "save", !.str = str]]
  /\ UNCHANGED <<rbuf, written, wrote>>
  /\ CrashFrame

\* "disable interrupts"
WriteSave(ctx) ==
  /\ MayStep(ctx) /\ wp[ctx].pc = "save"
  /\ LET s == local_irq_save(wp.irqOn)
     IN  wp' = [wp EXCEPT ![ctx].pc = "load", ![ctx].flags = s.flags,
                          !.irqOn = s.irqOn,
                          !.calls = Append(wp.calls, wp[ctx].str),
                          !.base = IF wp.calls = <<>> THEN rbuf ELSE wp.base]
  /\ written' = written \o wp[ctx].str
  /\ wrote' = TRUE
  /\ UNCHANGED rbuf
  /\ CrashFrame

\* "initialize local variables"
WriteLoad(ctx) ==
  /\ MayStep(ctx) /\ wp[ctx].pc = "load"
  /\ wp' = [wp EXCEPT ![ctx].pc = "loop", ![ctx].head = rbuf.head,
                      ![ctx].tail = rbuf.tail]
  /\ UNCHANGED <<rbuf, written, wrote>>
  /\ CrashFrame

\* one iteration of "while (len--)": the byte goes to memory, head and tail
\* are the locals
WriteByte(ctx) ==
  /\ MayStep(ctx) /\ wp[ctx].pc = "loop" /\ wp[ctx].str # <<>>
  /\ LET st == put_byte([data |-> rbuf.data, head |-> wp[ctx].head,
                         tail |-> wp[ctx].tail], Head(wp[ctx].str))
     IN  /\ rbuf' = [rbuf EXCEPT !.data = st.data]
         /\ wp' = [wp EXCEPT ![ctx].head = st.head, ![ctx].tail = st.tail,
                             ![ctx].str = Tail(wp[ctx].str)]
  /\ UNCHANGED <<written, wrote>>
  /\ CrashFrame

\* "rbuf->head = head"
WriteStoreHead(ctx) ==
  /\ MayStep(ctx) /\ wp[ctx].pc = "loop" /\ wp[ctx].str = <<>>
  /\ rbuf' = [rbuf EXCEPT !.head = wp[ctx].head]
  /\ wp' = [wp EXCEPT ![ctx].pc = "tail"]
  /\ UNCHANGED <<written, wrote>>
  /\ CrashFrame

\* "rbuf->tail = tail"
WriteStoreTail(ctx) ==
  /\ MayStep(ctx) /\ wp[ctx].pc = "tail"
  /\ rbuf' = [rbuf EXCEPT !.tail = wp[ctx].tail]
  /\ wp' = [wp EXCEPT ![ctx].pc = "restore"]
  /\ UNCHANGED <<written, wrote>>
  /\ CrashFrame

\* "restore interrupts"
WriteRestore(ctx) ==
  /\ MayStep(ctx) /\ wp[ctx].pc = "restore"
  /\ wp' = [wp EXCEPT ![ctx] = NoProc,
                      !.irqOn = local_irq_restore(wp[ctx].flags)]
  /\ UNCHANGED <<rbuf, written, wrote>>
  /\ CrashFrame

\* the restart: the memory that holds rbuf keeps its content, everything
\* else starts again
Crash ==
  /\ nInit > 0 /\ ~wp.crashed
  /\ wp' = [wp EXCEPT !.task = NoProc, !.irq = NoProc, !.irqOn = TRUE,
                      !.calls = <<>>, !.crashed = TRUE]
  /\ lbuf' = JunkLbuf
  /\ rbufOk' = FALSE /\ lbufOk' = FALSE
  /\ bootpc' = [phase |-> "early", step |-> 0]
  /\ procEntry' = FALSE /\ console' = FALSE
  /\ nCopy' = 0 /\ nInit' = 0
  /\ acc' = NoAcc /\ ppos' = 0 /\ ret' = NoRet /\ erased' = FALSE
  /\ rd' = NoRd /\ wrote' = FALSE
  /\ UNCHANGED <<rbuf, written, san, rl>>

\* what the first boot finds in memory: a valid ring or anything else
CrashMemories ==
  {[data |-> [i \in Offsets |-> 129 + i], head |-> 1, tail |-> 0,
    magic |-> BUF_MAGIC],
   [data |-> [i \in Offsets |-> 129 + i], head |-> BUF_SIZE, tail |-> 0,
    magic |-> 0]}

InitCrash ==
  /\ rbuf \in CrashMemories
  /\ lbuf = JunkLbuf
  /\ rbufOk = FALSE /\ lbufOk = FALSE
  /\ bootpc = [phase |-> "early", step |-> 0]
  /\ procEntry = FALSE /\ console = FALSE
  /\ written = <<>> /\ wrote = FALSE
  /\ nCopy = 0 /\ nInit = 0
  /\ acc = NoAcc /\ ppos = 0 /\ ret = NoRet /\ erased = FALSE /\ rd = NoRd
  /\ san = NoSan /\ wp = NoWp /\ rl = NoRl

NextCrash ==
  \/ EarlyInit
  \/ LateCheck
  \/ LateCopy
  \/ LateRingInit
  \/ LateProcCreate
  \/ LateRegister
  \/ \E ctx \in Contexts, str \in CrashStrs : WriteCall(ctx, str)
  \/ \E ctx \in Contexts : WriteSave(ctx)
  \/ \E ctx \in Contexts : WriteLoad(ctx)
  \/ \E ctx \in Contexts : WriteByte(ctx)
  \/ \E ctx \in Contexts : WriteStoreHead(ctx)
  \/ \E ctx \in Contexts : WriteStoreTail(ctx)
  \/ \E ctx \in Contexts : WriteRestore(ctx)
  \/ Crash

SpecCrash == InitCrash /\ [][NextCrash]_vars

(***************************************************************************)
(* Claims about the capture path, checked under SpecWrite.                 *)
(***************************************************************************)
NoNewline(s) == \A i \in 1..Len(s) : s[i] # NL

IsSuffix(w, s) ==
  /\ Len(w) <= Len(s)
  /\ w = SubSeq(s, Len(s) - Len(w) + 1, Len(s))

\* C1 (as amended): on a freshly initialised ring, as long as fewer than
\* BUF_SIZE bytes have been written in all, the retained window (tail up to
\* head) is exactly the bytes written, in order.
C1_WindowIsWrittenBelowCapacity ==
  Len(written) < BUF_SIZE => Window = written

\* C1 as stated: the same for every total length up to and including BUF_SIZE.
C1_WindowIsWrittenUpToCapacity ==
  Len(written) <= BUF_SIZE => Window = written

\* several calls have filled the ring up to its last free byte
C1_Witness ==
  /\ Len(written) = BUF_SIZE - 1
  /\ rbuf.head = BUF_SIZE - 1 /\ rbuf.tail = 0
  /\ Window = written
  /\ written[1] # written[Len(written)]

\* C2: after any sequence of writes the retained window is a suffix of all
\* the bytes written so far and holds at most BUF_SIZE bytes.
C2_WindowIsSuffix ==
  /\ Len(Window) <= BUF_SIZE
  /\ IsSuffix(Window, written)

\* eviction has run and has left a proper, non-empty suffix
C2_Witness ==
  /\ Len(written) > BUF_SIZE
  /\ Window # <<>>
  /\ Len(Window) < Len(written)
  /\ rbuf.tail > rbuf.head

\* C9 as stated: once BUF_SIZE bytes without a newline have been written,
\* every further byte of that line advances tail by one, so that tail keeps
\* pace with head.
C9_TailKeepsPaceWithHead ==
  [][(/\ Len(written) >= BUF_SIZE
      /\ Len(written') > Len(written)
      /\ NoNewline(written'))
     => rbuf'.tail = (rbuf.tail + Len(written') - Len(written)) % BUF_SIZE]_vars

(***************************************************************************)
(* Claims about the snapshot builder and late init, checked under SpecBoot.*)
(***************************************************************************)

\* the sanitizer as the claim words it: clear bit 0x80, then set bit 0x20 if
\* the result is below 0x20 and is not 0x0A
ClaimSanitize(b) ==
  LET c == b % 128
  IN  IF c < 32 /\ c # 10 THEN c + 32 ELSE c

\* the circular distance from tail to head as the claim words it
ClaimDistance(r) ==
  IF r.tail > r.head THEN BUF_SIZE - (r.tail - r.head) ELSE r.head - r.tail

\* a stored offset read as an unsigned magnitude (two's complement)
Magnitude(x) == IF x < 0 THEN x + PTR_MOD ELSE x

\* C3: when the state left by the previous session passes the validity
\* check, ring_buffer_copy sets the snapshot length to the circular distance
\* from tail to head, snapshot byte i is the sanitized ring byte at
\* (tail + i) mod BUF_SIZE, and as many bytes are copied as the length says.
C3_CopyIsSanitizedWindow ==
  (nCopy = 1 /\ acc.accepted) =>
    LET old == acc.seen
        n   == ClaimDistance(old)
    IN  /\ lbuf.count = n
        /\ \A i \in 0..(n - 1) :
             lbuf.data[i] = ClaimSanitize(old.data[(old.tail + i) % BUF_SIZE])
        /\ acc.wr = 0..(n - 1)
        /\ Cardinality(acc.wr) = lbuf.count

\* a wrapped window has been copied and a byte 0x81 has become 0x21
C3_Witness ==
  /\ nCopy = 1 /\ acc.accepted
  /\ acc.seen.tail > acc.seen.head
  /\ lbuf.count >= 2
  /\ \E i \in 0..(lbuf.count - 1) :
       /\ acc.seen.data[(acc.seen.tail + i) % BUF_SIZE] = 129
       /\ lbuf.data[i] = 33

\* C4: whatever the memory holds at startup, ring_buffer_copy reads rbuf->data
\* and writes lbuf->data only at offsets in [0, BUF_SIZE), and leaves
\* 0 <= lbuf->count <= BUF_SIZE.
C4_CopyStaysInBounds ==
  /\ acc.rd \subseteq Offsets
  /\ acc.wr \subseteq Offsets
  /\ nCopy = 1 => (0 <= lbuf.count /\ lbuf.count <= BUF_SIZE)

\* the copy has run on memory with the right magic number, a head inside the
\* ring and a negative tail
C4_Witness ==
  /\ nCopy = 1
  /\ acc.seen.magic = BUF_MAGIC
  /\ acc.seen.head \in Offsets
  /\ acc.seen.tail < 0
  /\ lbuf.count = 0

\* C5: the content is accepted if and only if the magic number is right and
\* head and tail, read as unsigned magnitudes, are below BUF_SIZE; when it is
\* rejected the snapshot length is 0 and no byte is copied.
C5_ValidityCheck ==
  nCopy = 1 =>
    /\ acc.accepted <=> (/\ acc.seen.magic = BUF_MAGIC
                         /\ Magnitude(acc.seen.head) < BUF_SIZE
                         /\ Magnitude(acc.seen.tail) < BUF_SIZE)
    /\ ~acc.accepted => (/\ lbuf.count = 0
                         /\ acc.wr = {} /\ acc.rd = {}
                         /\ lbuf.data = JunkLbuf.data)

\* the magic number is right, tail is inside the ring, and the head offset
\* equals BUF_SIZE: the content has been rejected
C5_Witness ==
  /\ nCopy = 1
  /\ acc.seen.magic = BUF_MAGIC
  /\ acc.seen.head = BUF_SIZE
  /\ acc.seen.tail \in Offsets
  /\ ~acc.accepted /\ lbuf.count = 0

\* C10: in a boot ring_buffer_copy runs at most once and ring_buffer_init
\* at most once, the copy before the init, and both have run once late init
\* has returned 0 and before the console can call ring_buffer_write; until
\* the first write the cursors are at the start and the magic number is set.
C10_CopyThenInitThenWrites ==
  /\ nCopy <= 1 /\ nInit <= 1
  /\ nInit = 1 => nCopy = 1
  /\ (console \/ wrote \/ bootpc.phase = "running") => (nCopy = 1 /\ nInit = 1)
  /\ (nInit = 1 /\ ~wrote) =>
       (rbuf.head = 0 /\ rbuf.tail = 0 /\ rbuf.magic = BUF_MAGIC)
  /\ bootpc.phase = "failed" => (nCopy = 0 /\ nInit = 0 /\ ~console)

\* the first message of the session has been written after one copy and
\* one init
C10_Witness ==
  /\ wrote /\ written # <<>>
  /\ nCopy = 1 /\ nInit = 1
  /\ acc.accepted /\ lbuf.count > 0

(***************************************************************************)
(* Claims about /proc/kmsg.last, checked under SpecSession.                *)
(***************************************************************************)

\* C6: a read at position p with count n on a snapshot of length L returns
\* the snapshot bytes at [min(p, L), min(p + n, L)), touches no offset at or
\* beyond L, and leaves the position at min(p, L) plus the number of bytes
\* returned; a read with p at or beyond L returns no byte and does not fault.
\* (A read of at least one byte into a bad caller's buffer returns -EFAULT.)
C6_ReadIsClampedSlice ==
  ret.op = "read" =>
    LET L  == ret.len0
        lo == Min(ret.pos0, L)
        hi == Min(ret.pos0 + ret.req, L)
    IN  /\ ret.touched \subseteq 0..(L - 1)
        /\ ret.fault => (~ret.ok /\ hi > lo)
        /\ ~ret.fault =>
             /\ ret.n = hi - lo
             /\ ret.bytes = [i \in 1..(hi - lo) |-> lbuf.data[lo + i - 1]]
        /\ ret.pos1 = lo + Len(ret.bytes)
        /\ ret.pos0 >= L => (~ret.fault /\ ret.bytes = <<>> /\ ret.n = 0)

\* a read that starts inside the snapshot and asks for more than is left
C6_Witness ==
  /\ ret.op = "read" /\ ~ret.fault
  /\ 0 < ret.pos0 /\ ret.pos0 < ret.len0
  /\ ret.pos0 + ret.req > ret.len0
  /\ Len(ret.bytes) = ret.len0 - ret.pos0

\* C7: a write to /proc/kmsg.last sets the snapshot length to 0 and returns
\* its count; from then on the length stays 0 and every read returns no byte,
\* whatever reads, writes and console messages follow.
C7_EraseIsFinal ==
  /\ ret.op = "write" => (ret.n = ret.req /\ lbuf.count = 0)
  /\ erased => lbuf.count = 0
  /\ (erased /\ ret.op = "read") =>
       (ret.bytes = <<>> /\ ret.n = 0 /\ ~ret.fault /\ ret.len0 = 0)

\* a non-empty snapshot was erased, the console has written since, and a
\* read of at least one byte has returned nothing
C7_Witness ==
  /\ erased /\ wrote
  /\ acc.wr # {}
  /\ ret.op = "read" /\ ret.req > 0 /\ ret.bytes = <<>>

(***************************************************************************)
(* Claim about a read that races with an erase, checked under SpecRace.    *)
(***************************************************************************)

\* C8 as stated: in every interleaving of a read with a write, the read
\* clamps its position and its count against one value of the length, so the
\* count it passes to copy_to_user is not negative and the copy does not
\* extend past the end of lbuf->data.
C8_ReadCopiesInsideSnapshot ==
  rd.pc = "l158" =>
    /\ rd.count <= PTR_MAX
    /\ rd.pos + rd.count <= BUF_SIZE

(***************************************************************************)
(* Claim about a failed early init, checked under SpecAlloc.               *)
(***************************************************************************)

\* C11: if early init has left rbuf or lbuf unallocated, late init returns
\* an error and nothing more happens in that boot: no copy, no reset of the
\* ring, no /proc/kmsg.last, no console; so no ring write and no request on
\* /proc/kmsg.last ever runs without its buffer.
C11_FailedAllocationIsInert ==
  /\ (bootpc.phase # "early" /\ (~rbufOk \/ ~lbufOk)) =>
       /\ nCopy = 0 /\ nInit = 0
       /\ ~procEntry /\ ~console
       /\ ~wrote /\ ret.op = "none" /\ ~erased
       /\ lbuf = JunkLbuf /\ rbuf \in SessionMemories
       /\ bootpc.phase \in {"late", "failed"}
       /\ bootpc.step = 0
  /\ bootpc.phase = "failed" => (~rbufOk \/ ~lbufOk) /\ ~ENABLED NextAlloc
  /\ (nCopy > 0 \/ nInit > 0 \/ wrote) => rbufOk
  /\ (nCopy > 0 \/ ret.op # "none") => lbufOk

\* rbuf was mapped, the allocation of lbuf failed, and late init has
\* returned its error
C11_Witness ==
  /\ bootpc.phase = "failed"
  /\ rbufOk /\ ~lbufOk
  /\ nCopy = 0 /\ ~procEntry /\ ~console

(***************************************************************************)
(* Claim about the sanitizer, checked under SpecSanitize.                  *)
(***************************************************************************)

\* C12: for every byte 0..255 the sanitizer yields a byte, and sanitizing
\* the result again leaves it as it is.
C12_SanitizeIdempotent ==
  /\ san.n >= 1 => san.once \in AllBytes
  /\ san.n = 2 => san.twice = san.once

\* the byte 0x81 has become 0x21 and has stayed 0x21
C12_Witness ==
  /\ san.n = 2 /\ san.in = 129 /\ san.once = 33 /\ san.twice = 33

(***************************************************************************)
(* Claims about eviction, checked under SpecWrite.                         *)
(***************************************************************************)

\* the BUF_SIZE bytes of the ring in the order of a scan that starts at t
ScanOrder(data, t) == [k \in 1..BUF_SIZE |-> data[(t + k - 1) % BUF_SIZE]]

\* where the claim puts tail: just after the first newline of the scan, or
\* at head when the scan meets none
ClaimEvictTarget(data, tail, head) ==
  LET scan == ScanOrder(data, tail)
      hits == {k \in 1..BUF_SIZE : scan[k] = NL}
  IN  IF hits = {} THEN head
      ELSE (tail + (CHOOSE k \in hits : \A j \in hits : k <= j)) % BUF_SIZE

\* C13: when a stored byte makes head equal to tail, tail moves to just
\* after the first newline found from the old tail on, or to head if there is
\* none; at least one byte is discarded, and a discarded region that holds a
\* newline ends with its first newline.
C13_EvictionStopsAfterFirstNewline ==
  [][(Len(written') = Len(written) + 1 /\ RingNext(rbuf.head) = rbuf.tail) =>
       LET scan    == ScanOrder(rbuf'.data, rbuf.tail)
           kept    == Len(RingSpan(rbuf'.data, rbuf'.tail, rbuf'.head))
           dropped == BUF_SIZE - kept
       IN  /\ rbuf'.head = rbuf.tail
           /\ rbuf'.tail = ClaimEvictTarget(rbuf'.data, rbuf.tail, rbuf'.head)
           /\ dropped >= 1
           /\ (\E k \in 1..dropped : scan[k] = NL) =>
                (scan[dropped] = NL /\ \A k \in 1..(dropped - 1) : scan[k] # NL)
           /\ (\A k \in 1..BUF_SIZE : scan[k] # NL) => dropped = BUF_SIZE]_vars

\* the byte that filled the ring has evicted a first line and kept the rest
C13_Witness ==
  /\ Len(written) = BUF_SIZE
  /\ rbuf.head = 0 /\ rbuf.tail > 0
  /\ rbuf.data[rbuf.tail - 1] = NL
  /\ Window = SubSeq(written, rbuf.tail + 1, BUF_SIZE)

\* C14: a write during which head never reaches tail (the retained length
\* plus the length of the input stays below BUF_SIZE) leaves tail as it is and
\* advances head by the length of the input modulo BUF_SIZE.
C14_EvictionIsLazy ==
  [][LET n == Len(written') - Len(written)
     IN  (Len(Window) + n < BUF_SIZE) =>
           /\ rbuf'.tail = rbuf.tail
           /\ rbuf'.head = (rbuf.head + n) % BUF_SIZE]_vars

\* after an eviction that emptied the ring at its last byte, a write of one
\* byte has wrapped head and has left tail where it was
C14_Witness ==
  /\ Len(written) > BUF_SIZE
  /\ rbuf.head = 0 /\ rbuf.tail = BUF_SIZE - 1
  /\ rbuf.data[BUF_SIZE - 2] # NL
  /\ Len(Window) = 1

\* C19 as stated: after every write of at least one byte the retained window
\* is not empty and ends with the last byte written.
C19_LastByteIsRetained ==
  written # <<>> =>
    /\ Window # <<>>
    /\ Window[Len(Window)] = written[Len(written)]

(***************************************************************************)
(* Claims about what each operation leaves alone, checked under            *)
(* SpecSession.                                                            *)
(***************************************************************************)

\* C15: once the snapshot is built, a step that changes it is an endpoint
\* write, which sets the length to 0 and changes neither the storage nor the
\* ring; a ring_buffer_write changes nothing of the snapshot or the endpoint;
\* an endpoint read or write changes nothing of the ring (data, head, tail,
\* marker).
C15_FrameOfRingAndSnapshot ==
  [][/\ lbuf' # lbuf =>
          /\ ret'.op = "write"
          /\ lbuf'.data = lbuf.data /\ lbuf'.count = 0
          /\ rbuf' = rbuf /\ written' = written
     /\ rbuf' # rbuf =>
          /\ written' # written
          /\ lbuf' = lbuf /\ ret' = ret /\ ppos' = ppos
     /\ (ret' # ret \/ ppos' # ppos) => rbuf' = rbuf
     /\ ret'.op = "read" /\ ret' # ret => lbuf' = lbuf]_vars

\* a console message went into the ring, then a read returned the whole
\* snapshot, which is still there
C15_Witness ==
  /\ wrote /\ ~erased
  /\ ret.op = "read" /\ ret.pos0 = 0
  /\ lbuf.count > 0 /\ Len(ret.bytes) = lbuf.count

(***************************************************************************)
(* Claims about a read loop, checked under SpecReadLoop.                   *)
(***************************************************************************)

\* the first count bytes of the snapshot
SnapshotBytes == [i \in 1..lbuf.count |-> lbuf.data[i - 1]]

\* C18: the chunks returned so far, put together, are the snapshot's bytes
\* below the position, each once and in order; when a read has returned zero
\* bytes the chunks are the whole snapshot, that read was at most the
\* (length + 1)-th, and no later read returned anything; and length + 1
\* reads never pass without a read of zero bytes.
C18_ReadLoopYieldsSnapshotOnce ==
  /\ ppos <= lbuf.count
  /\ rl.got = SubSeq(SnapshotBytes, 1, ppos)
  /\ rl.zeroAt # 0 =>
       /\ rl.got = SnapshotBytes
       /\ rl.zeroAt <= lbuf.count + 1
       /\ rl.late = 0
  /\ rl.reads >= lbuf.count + 1 => rl.zeroAt # 0

\* the longest snapshot read one byte at a time, then the read of zero
\* bytes, then one more
C18_Witness ==
  /\ lbuf.count = BUF_SIZE - 1
  /\ rl.zeroAt = BUF_SIZE
  /\ rl.reads = BUF_SIZE + 1
  /\ Len(rl.got) = BUF_SIZE - 1

(***************************************************************************)
(* Claims about restarts and interrupts, checked under SpecCrash.          *)
(***************************************************************************)

\* C16: from ring_buffer_init on, at every step of every ring_buffer_write
\* and through a restart, the marker in memory is the sentinel and head and
\* tail in memory are offsets inside the ring, so the validity check
\* passes; the boot after a restart accepts the memory.
C16_MemoryStaysValid ==
  /\ (nInit > 0 \/ wp.crashed) =>
       /\ rbuf.magic = BUF_MAGIC
       /\ rbuf.head \in Offsets /\ rbuf.tail \in Offsets
       /\ ring_buffer_valid(rbuf)
  /\ (wp.crashed /\ nCopy > 0) => acc.accepted

\* restarted inside the first write, after its byte was stored and before
\* head was stored, and the next boot has copied
C16_Witness ==
  /\ wp.crashed /\ nCopy = 1 /\ acc.accepted
  /\ written = <<65>>
  /\ acc.seen.data[0] = 65
  /\ acc.seen.head = 0 /\ acc.seen.tail = 0

RECURSIVE WritesInTurn(_, _)
WritesInTurn(r, calls) ==
  IF calls = <<>> THEN r
  ELSE WritesInTurn(ring_buffer_write(r, Head(calls)), Tail(calls))

InCritical(p) == p.pc \in {"load", "loop", "tail", "restore"}

\* C17: between its local_irq_save and its local_irq_restore a write runs
\* with interrupts disabled and no other write is inside ring_buffer_write's
\* loads, loop or stores; whenever no write is in progress the ring is what
\* the calls made so far produce when executed whole, one after another, in
\* the order in which they disabled interrupts.
C17_WritesDoNotInterleave ==
  /\ (InCritical(wp.task) \/ InCritical(wp.irq)) => ~wp.irqOn
  /\ ~(InCritical(wp.task) /\ wp.irq.pc # "idle")
  /\ (~InCritical(wp.task) /\ ~InCritical(wp.irq) /\ wp.calls # <<>>) =>
       rbuf = WritesInTurn(wp.base, wp.calls)

\* after one complete write the task has called again but not yet disabled
\* interrupts; the handler's write came in and has stored head and tail
C17_Witness ==
  /\ wp.task.pc = "save" /\ wp.task.str = <<66, NL>>
  /\ wp.irq.pc = "restore"
  /\ wp.calls = << <<65>>, <<65>> >>
  /\ rbuf.head = 2

IsSubstring(s, t) ==
  \E i \in 0..(Len(t) - Len(s)) : SubSeq(t, i + 1, i + Len(s)) = s

\* C20: after a restart, the snapshot that the next boot builds is a
\* contiguous part of the sanitized bytes handed to ring_buffer_write
\* before the restart.
C20_SnapshotIsPartOfStream ==
  (wp.crashed /\ nCopy > 0 /\ acc.accepted /\ wp.calls = <<>>) =>
     IsSubstring([i \in 1..lbuf.count |-> lbuf.data[i - 1]],
                 [i \in 1..Len(written) |-> sanitize(written[i])])

====
